---- MODULE Spec2Model ----
(***************************************************************************)
(* Double-pendulum simulation core: PendulumSystem (the collection and     *)
(* its drag arbitration), Pendulum (state, integrator step, hit-test,      *)
(* drag), PathTracer (the bounded fading trail) and PhysicsEngine (the     *)
(* fixed-step accumulator, accumulated_time).  The variable twin is a      *)
(* second collection stepped alongside pendulums, used to compare two      *)
(* runs from the same parameters.                                          *)
(*                                                                         *)
(* Numbers.  Python floats are modelled on an integer grid with an         *)
(* explicit overflow range: a finite value is an integer in                *)
(* -MaxFloat..MaxFloat, and the three non-finite floats are the values     *)
(* PosInf, NegInf and NaN.  A result outside the range becomes an          *)
(* infinity, as in IEEE arithmetic; a quotient is rounded toward zero to   *)
(* the grid.  Angles are measured in quarter turns (1 = pi/2 rad), so      *)
(* that sin and cos are exact on the grid; lengths and positions are in    *)
(* pixels.  A time is a number of ticks of 1/480 s, so that the fixed      *)
(* step min_step = 1/240 s is 2 ticks; angular velocities are per fixed    *)
(* step, so that a rate times a time is rate * ticks / MinStep.            *)
(***************************************************************************)
EXTENDS Integers, Sequences, FiniteSets, TLC

VARIABLES pendulums, next_id, dragging_pendulum, gravity, time_scale, paused,
          tracer, ret, accumulated_time, twin

vars == <<pendulums, next_id, dragging_pendulum, gravity, time_scale, paused,
          tracer, ret, accumulated_time, twin>>

sysvars == <<pendulums, next_id, dragging_pendulum, gravity, time_scale, paused>>

(* ------------------------------ bounds -------------------------------- *)

\* largest finite float of the model
MaxFloat == 400
\* createPendulum is offered while next_id < MaxId
MaxId == 2
\* update is offered while every finite angle and velocity is within MaxAngle
MaxAngle == 2
\* largest capacity given to a stand-alone PathTracer
MaxCap == 2
\* the denominator is computed for lengths 1..MaxLength and masses 1..MaxMass;
\* these lengths are counted in 1/LengthUnit pixel, so that a length below
\* one pixel is on the grid
MaxLength == 3
MaxMass == 2
LengthUnit == 2
\* longest trail duration asked of createPendulum, in ticks
MaxDuration == 8
\* PhysicsEngine.update is offered while accumulated_time <= MaxCarried (an
\* exception of a step leaves more than a step in the accumulator)
MaxCarried == 2

(* --------------------------- float arithmetic ------------------------- *)

PosInf == MaxFloat + 1
NegInf == 0 - (MaxFloat + 1)
NaN == MaxFloat + 2

IsNaN(x) == x = NaN
IsInf(x) == x = PosInf \/ x = NegInf
IsFinite(x) == x >= 0 - MaxFloat /\ x <= MaxFloat

Abs(x) == IF x < 0 THEN 0 - x ELSE x
Sgn(x) == IF x < 0 THEN 0 - 1 ELSE IF x > 0 THEN 1 ELSE 0

\* an exact result, rounded to the float range
Round(z) == IF z > MaxFloat THEN PosInf ELSE IF z < 0 - MaxFloat THEN NegInf ELSE z

Neg(x) == IF IsNaN(x) THEN NaN ELSE 0 - x

Add(x, y) ==
    IF IsNaN(x) \/ IsNaN(y) THEN NaN
    ELSE IF IsInf(x) /\ IsInf(y) THEN (IF x = y THEN x ELSE NaN)
    ELSE IF IsInf(x) THEN x
    ELSE IF IsInf(y) THEN y
    ELSE Round(x + y)

Sub(x, y) == Add(x, Neg(y))

Mul(x, y) ==
    IF IsNaN(x) \/ IsNaN(y) THEN NaN
    ELSE IF IsInf(x) \/ IsInf(y)
         THEN (IF x = 0 \/ y = 0 THEN NaN
               ELSE IF Sgn(x) * Sgn(y) > 0 THEN PosInf ELSE NegInf)
    ELSE Round(x * y)

\* x / y for y # 0 (Python raises ZeroDivisionError for y = 0)
Div(x, y) ==
    IF IsNaN(x) \/ IsNaN(y) THEN NaN
    ELSE IF IsInf(x) /\ IsInf(y) THEN NaN
    ELSE IF IsInf(x) THEN (IF Sgn(x) * Sgn(y) > 0 THEN PosInf ELSE NegInf)
    ELSE IF IsInf(y) THEN 0
    ELSE Sgn(x) * Sgn(y) * (Abs(x) \div Abs(y))

\* x**2: Python raises OverflowError when the square of a finite x overflows
SqRaises(x) == IsFinite(x) /\ x * x > MaxFloat
Sq(x) == IF IsNaN(x) THEN NaN ELSE IF IsInf(x) THEN PosInf ELSE Round(x * x)

\* math.sin / math.cos: ValueError on an infinity, nan on nan
TrigRaises(x) == IsInf(x)
Sin(x) ==
    IF IsNaN(x) THEN NaN
    ELSE CASE x % 4 = 0 -> 0
           [] x % 4 = 1 -> 1
           [] x % 4 = 2 -> 0
           [] x % 4 = 3 -> 0 - 1
Cos(x) ==
    IF IsNaN(x) THEN NaN
    ELSE CASE x % 4 = 0 -> 1
           [] x % 4 = 1 -> 0
           [] x % 4 = 2 -> 0 - 1
           [] x % 4 = 3 -> 0

\* math.atan2(dx, dy) of integer pixel offsets, rounded to the nearest quarter
\* turn (ties toward the vertical); the result lies in (-pi, pi]
Atan2(dx, dy) ==
    IF Abs(dx) > Abs(dy) THEN (IF dx > 0 THEN 1 ELSE 0 - 1)
    ELSE IF dy >= 0 THEN 0
    ELSE IF dx >= 0 THEN 2 ELSE 0 - 2

(* ------------------------------ PathTracer ---------------------------- *)

DefaultMaxPoints == 1000
MinAlpha == 10
\* fade_rate = 0.95 as a fraction FadeNum / FadeDen
FadeNum == 95
FadeDen == 100
FullAlpha == 255
\* the default colour (255, 0, 0)
DefaultColor == <<255, 0, 0>>

\* mutant of DequeAppend: a full deque drops its newest element, not its oldest
DequeAppend_EvictNewest(points, maxlen, x) ==
    IF maxlen = 0 THEN <<>>
    ELSE IF Len(points) >= maxlen THEN Append(SubSeq(points, 1, Len(points) - 1), x)
    ELSE Append(points, x)

\* collections.deque(maxlen = n).append(x): a full deque drops its leftmost
\* element first; a deque of maxlen 0 stays empty
DequeAppend(points, maxlen, x) ==
    IF maxlen = 0 THEN <<>>
    ELSE IF Len(points) >= maxlen THEN Append(Tail(points), x)
    ELSE Append(points, x)

PathTracer_init(max_points) ==
    [points |-> <<>>, maxlen |-> max_points, enabled |-> TRUE, color |-> DefaultColor]

PathTracer_clear(t) == [t EXCEPT !.points = <<>>]

\* a point is the tuple (x, y, point_color, alpha); rainbow_mode is off
PathTracer_add_point(t, position) ==
    IF ~t.enabled THEN t
    ELSE [t EXCEPT !.points =
            DequeAppend(t.points, t.maxlen, <<position[1], position[2], t.color, FullAlpha>>)]

\* mutant of FadeAlpha: the fade rate inverted, alpha / fade_rate
FadeAlpha_Brighten(alpha) == (alpha * FadeDen) \div FadeNum

\* int(alpha * fade_rate), never below 0
FadeAlpha(alpha) ==
    LET a == (alpha * FadeNum) \div FadeDen IN IF a > 0 THEN a ELSE 0

\* mutant of FadePoints: a point whose new alpha equals min_alpha is kept
RECURSIVE FadePoints_KeepAtThreshold(_, _, _)
FadePoints_KeepAtThreshold(points, i, maxlen) ==
    IF i = 0 THEN <<>>
    ELSE LET done == FadePoints_KeepAtThreshold(points, i - 1, maxlen)
             new_alpha == FadeAlpha(points[i][4])
         IN  IF new_alpha >= MinAlpha
             THEN DequeAppend(done, maxlen,
                              <<points[i][1], points[i][2], points[i][3], new_alpha>>)
             ELSE done

\* the loop of PathTracer.update over points 1..i: the faded points above
\* min_alpha, in order, in a deque of the same maxlen
RECURSIVE FadePoints(_, _, _)
FadePoints(points, i, maxlen) ==
    IF i = 0 THEN <<>>
    ELSE LET done == FadePoints(points, i - 1, maxlen)
             new_alpha == FadeAlpha(points[i][4])
         IN  IF new_alpha > MinAlpha
             THEN DequeAppend(done, maxlen,
                              <<points[i][1], points[i][2], points[i][3], new_alpha>>)
             ELSE done

PathTracer_update(t) ==
    IF t.points = <<>> THEN t
    ELSE [t EXCEPT !.points = FadePoints(t.points, Len(t.points), t.maxlen)]

\* mutant of PathTracer_set_enabled: disabling keeps the stored points
PathTracer_set_enabled_KeepPoints(t, enabled) == [t EXCEPT !.enabled = enabled]

\* PathTracer.set_enabled: the flag is set, and the points go when disabling
PathTracer_set_enabled(t, enabled) ==
    LET t1 == [t EXCEPT !.enabled = enabled]
    IN  IF ~enabled THEN PathTracer_clear(t1) ELSE t1

\* the fixed physics step min_step = 1/240 s, in ticks of 1/480 s
MinStep == 2

\* rate * time, for a rate per fixed step and a time in ticks
TimesDt(rate, dt) ==
    LET product == Mul(rate, dt)
    IN  IF IsFinite(product) THEN Sgn(product) * (Abs(product) \div MinStep) ELSE product

CeilDiv(a, b) == (a + b - 1) \div b

\* PathTracer.initialize(color, duration), called by Pendulum.initialize: the
\* trail is sized from the retention duration, capacity = duration / fixed
\* step, rounded up, at least 2
PathTracer_initialize(t, color, duration) ==
    LET capacity == IF CeilDiv(duration, MinStep) < 2 THEN 2 ELSE CeilDiv(duration, MinStep)
    IN  [t EXCEPT !.color = color, !.maxlen = capacity, !.points = <<>>]

\* PathTracer.addPoint(x, y, dt), called by Pendulum.update: append of one
\* point with full opacity, the oldest point evicted first at capacity
PathTracer_addPoint(t, x, y, dt) == PathTracer_add_point(t, <<x, y>>)

(* ------------------------------- Pendulum ----------------------------- *)

BobRadius == 10
NoException == "none"

\* Pendulum.__init__: the default field values
Pendulum_init ==
    [id |-> 0 - 1, offsetX |-> 0, offsetY |-> 0,
     length1 |-> 100, length2 |-> 100, mass1 |-> 10, mass2 |-> 10,
     angle1 |-> 0, angle2 |-> 0, vel1 |-> 0, vel2 |-> 0,
     initial_angle1 |-> 0, initial_angle2 |-> 0,
     showWire |-> TRUE, bobRadius1 |-> BobRadius, bobRadius2 |-> BobRadius,
     draggingBob |-> 0,
     pathTracer |-> PathTracer_init(DefaultMaxPoints)]

\* a parameter object carries every attribute initialize reads, or lacks them
HasAttributes(params) == "offsetX" \in DOMAIN params

\* mutant of Pendulum_initialize: the trail keeps the capacity it is built with
Pendulum_initialize_DefaultTrail(p, params) ==
    IF ~HasAttributes(params) THEN [p |-> p, exc |-> "AttributeError"]
    ELSE [p |-> [p EXCEPT
                   !.offsetX = params.offsetX, !.offsetY = params.offsetY,
                   !.length1 = params.length1, !.length2 = params.length2,
                   !.mass1 = params.mass1, !.mass2 = params.mass2,
                   !.angle1 = params.angle1, !.angle2 = params.angle2,
                   !.vel1 = params.velocity1, !.vel2 = params.velocity2,
                   !.initial_angle1 = params.angle1,
                   !.initial_angle2 = params.angle2,
                   !.showWire = params.showWire,
                   !.pathTracer = [PathTracer_init(DefaultMaxPoints)
                                      EXCEPT !.color = params.pathColor]],
          exc |-> NoException]

\* Pendulum.initialize: the fields are copied from params without any check;
\* reading a missing attribute raises AttributeError
Pendulum_initialize(p, params) ==
    IF ~HasAttributes(params) THEN [p |-> p, exc |-> "AttributeError"]
    ELSE [p |-> [p EXCEPT
                   !.offsetX = params.offsetX, !.offsetY = params.offsetY,
                   !.length1 = params.length1, !.length2 = params.length2,
                   !.mass1 = params.mass1, !.mass2 = params.mass2,
                   !.angle1 = params.angle1, !.angle2 = params.angle2,
                   !.vel1 = params.velocity1, !.vel2 = params.velocity2,
                   !.initial_angle1 = params.angle1,
                   !.initial_angle2 = params.angle2,
                   !.showWire = params.showWire,
                   !.pathTracer = PathTracer_initialize(
                                      PathTracer_init(DefaultMaxPoints),
                                      params.pathColor, params.pathDuration)],
          exc |-> NoException]

\* mutant of Pendulum_reset: a reset lets go of the bob as well
Pendulum_reset_EndsDrag(p) ==
    [p EXCEPT !.angle1 = p.initial_angle1, !.angle2 = p.initial_angle2,
              !.vel1 = 0, !.vel2 = 0, !.draggingBob = 0,
              !.pathTracer = PathTracer_clear(p.pathTracer)]

\* mutant of Pendulum_reset: the velocities are left as they are
Pendulum_reset_KeepVelocity(p) ==
    [p EXCEPT !.angle1 = p.initial_angle1, !.angle2 = p.initial_angle2,
              !.pathTracer = PathTracer_clear(p.pathTracer)]

Pendulum_reset(p) ==
    [p EXCEPT !.angle1 = p.initial_angle1, !.angle2 = p.initial_angle2,
              !.vel1 = 0, !.vel2 = 0,
              !.pathTracer = PathTracer_clear(p.pathTracer)]

\* _calculate_bob1_position / _calculate_bob2_position: math.sin raises
\* ValueError on an infinite angle and int() raises ValueError on nan; on the
\* grid length * sin(angle) is an integer, which int() leaves as it is
Bob1Raises(p) == ~IsFinite(p.angle1)
Bob2Raises(p) == ~IsFinite(p.angle1) \/ ~IsFinite(p.angle2)

Bob1Position(p) ==
    <<p.offsetX + p.length1 * Sin(p.angle1), p.offsetY + p.length1 * Cos(p.angle1)>>

Bob2Position(p) ==
    <<Bob1Position(p)[1] + p.length2 * Sin(p.angle2),
      Bob1Position(p)[2] + p.length2 * Cos(p.angle2)>>

\* math.sqrt(dx*dx + dy*dy) <= radius, for integer dx, dy and radius
WithinRadius(pos, centre, radius) ==
    LET dx == pos[1] - centre[1]
        dy == pos[2] - centre[2]
    IN  dx * dx + dy * dy <= radius * radius

\* mutant of Den: the mass of the inner bob counts once
Den_SingleMass(p) ==
    Mul(p.length1,
        Sub(Add(p.mass1, p.mass2),
            Mul(p.mass2, Cos(Mul(2, Sub(p.angle1, p.angle2))))))

\* the common denominator of the accelerations, Pendulum.update line 145
Den(p) ==
    Mul(p.length1,
        Sub(Add(Mul(2, p.mass1), p.mass2),
            Mul(p.mass2, Cos(Mul(2, Sub(p.angle1, p.angle2))))))

\* the accelerations and the integration of Pendulum.update, lines 119-157
Integrate(p, deltaTime, g) ==
    LET a1 == p.angle1
        a2 == p.angle2
        m1 == p.mass1
        m2 == p.mass2
        l1 == p.length1
        l2 == p.length2
        d12 == Sub(a1, a2)
        arg136 == Sub(a1, Mul(2, a2))
        arg145 == Mul(2, d12)
        sin1 == Sin(a1)
        cos1 == Cos(a1)
        sin12 == Sin(d12)
        cos12 == Cos(d12)
        num1a == Mul(Mul(Neg(g), Add(Mul(2, m1), m2)), sin1)
        num1b == Sub(num1a, Mul(Mul(m2, g), Sin(arg136)))
        num1 == Sub(num1b,
                    Mul(Mul(Mul(2, sin12), m2),
                        Add(Mul(Sq(p.vel2), l2), Mul(Mul(Sq(p.vel1), l1), cos12))))
        num2a == Mul(2, sin12)
        num2b == Mul(num2a,
                     Add(Mul(Mul(Sq(p.vel1), l1), Add(m1, m2)),
                         Mul(Mul(g, Add(m1, m2)), cos1)))
        num2 == Add(num2b, Mul(Mul(Mul(Sq(p.vel2), l2), m2), cos12))
        den == Den(p)
        exc == IF TrigRaises(a1) \/ TrigRaises(a2) \/ TrigRaises(d12)
                  \/ TrigRaises(arg136)
               THEN "ValueError"
               ELSE IF SqRaises(p.vel2) \/ SqRaises(p.vel1) THEN "OverflowError"
               ELSE IF TrigRaises(arg145) THEN "ValueError"
               ELSE IF den = 0 \/ Mul(l2, den) = 0 THEN "ZeroDivisionError"
               ELSE NoException
        acc1 == Div(num1, den)
        acc2 == Div(num2, Mul(l2, den))
        vel1 == Add(p.vel1, TimesDt(acc1, deltaTime))
        vel2 == Add(p.vel2, TimesDt(acc2, deltaTime))
    IN  IF exc # NoException THEN [p |-> p, exc |-> exc]
        ELSE [p |-> [p EXCEPT !.vel1 = vel1, !.vel2 = vel2,
                                !.angle1 = Add(a1, TimesDt(vel1, deltaTime)),
                                !.angle2 = Add(a2, TimesDt(vel2, deltaTime))],
              exc |-> NoException]

\* Pendulum.update, lines 159-162, after the integration with outcome r: the
\* outer bob's position is appended to the trail
Trace(r, deltaTime) ==
    IF r.exc # NoException THEN r
    ELSE IF Bob2Raises(r.p) THEN [p |-> r.p, exc |-> "ValueError"]
    ELSE [p |-> [r.p EXCEPT !.pathTracer =
                   PathTracer_addPoint(r.p.pathTracer, Bob2Position(r.p)[1],
                                       Bob2Position(r.p)[2], deltaTime)],
          exc |-> NoException]

\* Pendulum.update from line 114 on: the new velocities and angles are stored,
\* and then the trail is extended
StepAndTrace(p, deltaTime, g) == Trace(Integrate(p, deltaTime, g), deltaTime)

\* mutant of Pendulum_update: a dragged pendulum is integrated like any other
Pendulum_update_NoFreeze(p, deltaTime, g) == StepAndTrace(p, deltaTime, g)

\* the outcome r of a step of p with the angles advanced by the velocities p
\* had before the step
ExplicitAngles(p, r, deltaTime) ==
    IF r.exc # NoException THEN r
    ELSE [p |-> [r.p EXCEPT !.angle1 = Add(p.angle1, TimesDt(p.vel1, deltaTime)),
                            !.angle2 = Add(p.angle2, TimesDt(p.vel2, deltaTime))],
          exc |-> NoException]

\* mutant of Pendulum_update: explicit Euler, the angles are advanced by the
\* velocities of before the step
Pendulum_update_AnglesFirst(p, deltaTime, g) ==
    IF p.draggingBob > 0 THEN [p |-> p, exc |-> NoException]
    ELSE ExplicitAngles(p, StepAndTrace(p, deltaTime, g), deltaTime)

\* mutant of Pendulum_update: the inner joint gets a push that depends on the id
Pendulum_update_ById(p, deltaTime, g) ==
    IF p.draggingBob > 0 THEN [p |-> p, exc |-> NoException]
    ELSE StepAndTrace([p EXCEPT !.vel1 = Add(p.vel1, p.id)], deltaTime, g)

\* Pendulum.update: nothing while a bob is dragged
Pendulum_update(p, deltaTime, g) ==
    IF p.draggingBob > 0 THEN [p |-> p, exc |-> NoException]
    ELSE StepAndTrace(p, deltaTime, g)

\* mutant of Pendulum_startDrag: the inner bob is tested before the outer bob
Pendulum_startDrag_InnerFirst(p, mousePos) ==
    IF Bob2Raises(p) THEN [p |-> p, hit |-> FALSE, exc |-> "ValueError"]
    ELSE IF WithinRadius(mousePos, Bob1Position(p), p.bobRadius1)
         THEN [p |-> [p EXCEPT !.draggingBob = 1], hit |-> TRUE, exc |-> NoException]
    ELSE IF WithinRadius(mousePos, Bob2Position(p), p.bobRadius2)
         THEN [p |-> [p EXCEPT !.draggingBob = 2], hit |-> TRUE, exc |-> NoException]
    ELSE [p |-> p, hit |-> FALSE, exc |-> NoException]

\* Pendulum.startDrag: the outer bob is tested before the inner bob
Pendulum_startDrag(p, mousePos) ==
    IF Bob2Raises(p) THEN [p |-> p, hit |-> FALSE, exc |-> "ValueError"]
    ELSE IF WithinRadius(mousePos, Bob2Position(p), p.bobRadius2)
         THEN [p |-> [p EXCEPT !.draggingBob = 2], hit |-> TRUE, exc |-> NoException]
    ELSE IF WithinRadius(mousePos, Bob1Position(p), p.bobRadius1)
         THEN [p |-> [p EXCEPT !.draggingBob = 1], hit |-> TRUE, exc |-> NoException]
    ELSE [p |-> p, hit |-> FALSE, exc |-> NoException]

\* mutant of Pendulum_updateDrag: a drag move stops both joints
Pendulum_updateDrag_StopBoth(p, mousePos) ==
    IF p.draggingBob = 1
    THEN [p |-> [p EXCEPT !.angle1 = Atan2(mousePos[1] - p.offsetX, mousePos[2] - p.offsetY),
                          !.vel1 = 0, !.vel2 = 0],
          exc |-> NoException]
    ELSE IF p.draggingBob = 2
    THEN IF Bob1Raises(p) THEN [p |-> p, exc |-> "ValueError"]
         ELSE [p |-> [p EXCEPT !.angle2 = Atan2(mousePos[1] - Bob1Position(p)[1],
                                                mousePos[2] - Bob1Position(p)[2]),
                               !.vel1 = 0, !.vel2 = 0],
               exc |-> NoException]
    ELSE [p |-> p, exc |-> NoException]

Pendulum_updateDrag(p, mousePos) ==
    IF p.draggingBob = 1
    THEN [p |-> [p EXCEPT !.angle1 = Atan2(mousePos[1] - p.offsetX, mousePos[2] - p.offsetY),
                          !.vel1 = 0],
          exc |-> NoException]
    ELSE IF p.draggingBob = 2
    THEN IF Bob1Raises(p) THEN [p |-> p, exc |-> "ValueError"]
         ELSE [p |-> [p EXCEPT !.angle2 = Atan2(mousePos[1] - Bob1Position(p)[1],
                                                mousePos[2] - Bob1Position(p)[2]),
                               !.vel2 = 0],
               exc |-> NoException]
    ELSE [p |-> p, exc |-> NoException]

\* mutant of Pendulum_endDrag: the drag state is left as it is
Pendulum_endDrag_StillHeld(p) == p

Pendulum_endDrag(p) == [p EXCEPT !.draggingBob = 0]

(* ---------------------------- PendulumSystem -------------------------- *)

NoPendulum == 0 - 1

\* the values offered to the operations
PathColor == <<80, 180, 255>>

Params(l1, l2, a1, a2, v1, duration) ==
    [offsetX |-> 0, offsetY |-> 0, length1 |-> l1, length2 |-> l2,
     mass1 |-> 1, mass2 |-> 1, angle1 |-> a1, angle2 |-> a2,
     velocity1 |-> v1, velocity2 |-> 0, showWire |-> TRUE,
     pathColor |-> PathColor, pathDuration |-> duration]

\* an object that lacks the attributes of PendulumParams
NoParams == [showWire |-> TRUE]

ParamSet ==
    { Params(10, 5, 1, 0, 0, 3),      \* bobs at (10, 0) and (10, 5): they overlap
      Params(0, 5, 0, 0, 0, 1),       \* a length of zero
      NoParams }

RunParams == { Params(10, 5, 1, 0, 0, 3) }

MousePositions == { <<10, 5>>, <<10, 0 - 8>>, <<0, 10>>, <<50, 50>> }

Gravities == { 10, MaxFloat }
TimeScales == { 1, 2 }

Ids(ps) == { ps[i].id : i \in 1..Len(ps) }

\* mutant of RemoveAt: the pendulums after index i are dropped as well
RemoveAt_DropRest(ps, i) == SubSeq(ps, 1, i - 1)

RemoveAt(ps, i) == SubSeq(ps, 1, i - 1) \o SubSeq(ps, i + 1, Len(ps))

\* removePendulum's loop: the index of the first pendulum with the id, or 0
RECURSIVE FindFrom(_, _, _)
FindFrom(ps, i, pendulum_id) ==
    IF i > Len(ps) THEN 0
    ELSE IF ps[i].id = pendulum_id THEN i
    ELSE FindFrom(ps, i + 1, pendulum_id)

\* the loop of PendulumSystem.update over pendulums i..Len(ps); an exception
\* of one pendulum ends the loop and leaves the later ones as they were
RECURSIVE UpdateFrom(_, _, _, _)
\* the loop after pendulum i was updated with outcome r
UpdateRest(ps, i, scaled_dt, g, r) ==
    IF r.exc # NoException
    THEN [ps |-> [ps EXCEPT ![i] = r.p], exc |-> r.exc]
    ELSE UpdateFrom([ps EXCEPT ![i] = r.p], i + 1, scaled_dt, g)

UpdateFrom(ps, i, scaled_dt, g) ==
    IF i > Len(ps) THEN [ps |-> ps, exc |-> NoException]
    ELSE UpdateRest(ps, i, scaled_dt, g, Pendulum_update(ps[i], scaled_dt, g))

\* mutant of MouseDownFrom: the pendulums are tried first added first
MouseDownFrom_OldestFirst(ps, i, pos, owner) ==
    LET hits == { k \in 1..i : Pendulum_startDrag(ps[k], pos).hit }
        first == CHOOSE k \in hits : \A j \in hits : k <= j
    IN  IF hits = {} THEN [ps |-> ps, owner |-> owner, result |-> "False"]
        ELSE [ps |-> [ps EXCEPT ![first] = Pendulum_startDrag(ps[first], pos).p],
              owner |-> ps[first].id, result |-> "True"]

\* the loop of handleMouseDown over pendulums i, i-1, .., 1 (last added first)
RECURSIVE MouseDownFrom(_, _, _, _)
MouseDownFrom(ps, i, pos, owner) ==
    IF i = 0 THEN [ps |-> ps, owner |-> owner, result |-> "False"]
    ELSE LET r == Pendulum_startDrag(ps[i], pos)
         IN  IF r.exc # NoException
             THEN [ps |-> ps, owner |-> owner, result |-> r.exc]
             ELSE IF r.hit
             THEN [ps |-> [ps EXCEPT ![i] = r.p], owner |-> ps[i].id, result |-> "True"]
             ELSE MouseDownFrom(ps, i - 1, pos, owner)

\* what the caller of the last operation observed: the value returned ("id" for
\* the id createPendulum returns) or the exception raised
Result(op, result) == [op |-> op, result |-> result]

WithinBounds(x) == ~IsFinite(x) \/ Abs(x) <= MaxAngle

Init ==
    /\ pendulums = <<>>
    /\ next_id = 0
    /\ dragging_pendulum = NoPendulum
    /\ gravity = 10
    /\ time_scale = 1
    /\ paused = TRUE
    /\ tracer = PathTracer_init(0)
    /\ accumulated_time = 0
    /\ twin = <<>>
    /\ ret = Result("init", "None")

\* mutant of createPendulum: the id is the number of pendulums in the list
createPendulum_CountAsId(params) ==
    /\ next_id < MaxId
    /\ LET pendulum == [Pendulum_init EXCEPT !.id = Len(pendulums)]
           r == Pendulum_initialize(pendulum, params)
       IN  /\ next_id' = next_id + 1
           /\ IF r.exc # NoException
              THEN /\ pendulums' = pendulums
                   /\ ret' = Result("createPendulum", r.exc)
              ELSE /\ pendulums' = Append(pendulums, r.p)
                   /\ ret' = Result("createPendulum", "id")
    /\ UNCHANGED <<dragging_pendulum, gravity, time_scale, paused, tracer, accumulated_time, twin>>

\* createPendulum: the id is taken and next_id advanced before initialize
\* runs; when initialize raises, the pendulum is not appended
createPendulum(params) ==
    /\ next_id < MaxId
    /\ LET pendulum == [Pendulum_init EXCEPT !.id = next_id]
           r == Pendulum_initialize(pendulum, params)
       IN  /\ next_id' = next_id + 1
           /\ IF r.exc # NoException
              THEN /\ pendulums' = pendulums
                   /\ ret' = Result("createPendulum", r.exc)
              ELSE /\ pendulums' = Append(pendulums, r.p)
                   /\ ret' = Result("createPendulum", "id")
    /\ UNCHANGED <<dragging_pendulum, gravity, time_scale, paused, tracer, accumulated_time, twin>>

removePendulum(pendulum_id) ==
    /\ LET i == FindFrom(pendulums, 1, pendulum_id)
       IN  IF i = 0
           THEN /\ pendulums' = pendulums
                /\ ret' = Result("removePendulum", "False")
           ELSE /\ pendulums' = RemoveAt(pendulums, i)
                /\ ret' = Result("removePendulum", "True")
    /\ UNCHANGED <<next_id, dragging_pendulum, gravity, time_scale, paused, tracer, accumulated_time, twin>>

\* the body of PendulumSystem.update(deltaTime) on the pendulums ps: nothing
\* while paused, otherwise every pendulum is updated with deltaTime * time_scale
PendulumSystem_update(ps, deltaTime) ==
    IF paused THEN [ps |-> ps, exc |-> NoException]
    ELSE UpdateFrom(ps, 1, Mul(deltaTime, time_scale), gravity)

\* every finite angle and velocity of ps is within the explored range
AllWithinBounds(ps) ==
    \A i \in 1..Len(ps) :
        /\ WithinBounds(ps[i].angle1) /\ WithinBounds(ps[i].angle2)
        /\ WithinBounds(ps[i].vel1) /\ WithinBounds(ps[i].vel2)

\* PendulumSystem.update(deltaTime), called by the engine with min_step
update(deltaTime) ==
    /\ AllWithinBounds(pendulums)
    /\ \E r \in { PendulumSystem_update(pendulums, deltaTime) } :
          /\ pendulums' = r.ps
          /\ ret' = Result("update", IF r.exc = NoException THEN "None" ELSE r.exc)
    /\ UNCHANGED <<next_id, dragging_pendulum, gravity, time_scale, paused, tracer, accumulated_time, twin>>

handleMouseDown(pos) ==
    /\ LET r == MouseDownFrom(pendulums, Len(pendulums), pos, dragging_pendulum)
       IN  /\ pendulums' = r.ps
           /\ dragging_pendulum' = r.owner
           /\ ret' = Result("handleMouseDown", r.result)
    /\ UNCHANGED <<next_id, gravity, time_scale, paused, tracer, accumulated_time, twin>>

\* handleMouseMove: dragging_pendulum may refer to a pendulum that was removed
\* from the list; updateDrag then changes an object nothing else can reach
handleMouseMove(pos) ==
    /\ LET i == FindFrom(pendulums, 1, dragging_pendulum)
       IN  IF dragging_pendulum = NoPendulum \/ i = 0
           THEN /\ pendulums' = pendulums
                /\ ret' = Result("handleMouseMove", "None")
           ELSE LET r == Pendulum_updateDrag(pendulums[i], pos)
                IN  /\ pendulums' = [pendulums EXCEPT ![i] = r.p]
                    /\ ret' = Result("handleMouseMove",
                                     IF r.exc = NoException THEN "None" ELSE r.exc)
    /\ UNCHANGED <<next_id, dragging_pendulum, gravity, time_scale, paused, tracer, accumulated_time, twin>>

handleMouseUp ==
    /\ LET i == FindFrom(pendulums, 1, dragging_pendulum)
       IN  IF dragging_pendulum = NoPendulum
           THEN /\ pendulums' = pendulums
                /\ dragging_pendulum' = dragging_pendulum
           ELSE /\ pendulums' = IF i = 0 THEN pendulums
                                ELSE [pendulums EXCEPT ![i] = Pendulum_endDrag(pendulums[i])]
                /\ dragging_pendulum' = NoPendulum
    /\ ret' = Result("handleMouseUp", "None")
    /\ UNCHANGED <<next_id, gravity, time_scale, paused, tracer, accumulated_time, twin>>

resetAll ==
    /\ pendulums' = [i \in 1..Len(pendulums) |-> Pendulum_reset(pendulums[i])]
    /\ ret' = Result("resetAll", "None")
    /\ UNCHANGED <<next_id, dragging_pendulum, gravity, time_scale, paused, tracer, accumulated_time, twin>>

setPaused(value) ==
    /\ paused' = value
    /\ ret' = Result("setPaused", "None")
    /\ UNCHANGED <<pendulums, next_id, dragging_pendulum, gravity, time_scale, tracer, accumulated_time, twin>>

setGravity(value) ==
    /\ gravity' = value
    /\ ret' = Result("setGravity", "None")
    /\ UNCHANGED <<pendulums, next_id, dragging_pendulum, time_scale, paused, tracer, accumulated_time, twin>>

setTimeScale(scale) ==
    /\ time_scale' = scale
    /\ ret' = Result("setTimeScale", "None")
    /\ UNCHANGED <<pendulums, next_id, dragging_pendulum, gravity, paused, tracer, accumulated_time, twin>>

\* the collection while the simulation is paused, as it is after construction
Next ==
    \/ \E params \in ParamSet : createPendulum(params)
    \/ \E pendulum_id \in 0..MaxId : removePendulum(pendulum_id)
    \/ update(MinStep)
    \/ \E pos \in MousePositions : handleMouseDown(pos)
    \/ \E pos \in MousePositions : handleMouseMove(pos)
    \/ handleMouseUp
    \/ resetAll

Spec == Init /\ [][Next]_vars

(* ------------------------- the running simulation --------------------- *)

\* one pendulum has been created; the simulation is started, stopped and
\* stepped, its gravity and time scale are set, and the pendulum is dragged
InitRun ==
    /\ \E params \in RunParams :
          pendulums = <<Pendulum_initialize([Pendulum_init EXCEPT !.id = 0], params).p>>
    /\ next_id = 1
    /\ dragging_pendulum = NoPendulum
    /\ gravity = 10
    /\ time_scale = 1
    /\ paused = TRUE
    /\ tracer = PathTracer_init(0)
    /\ accumulated_time = 0
    /\ twin = <<>>
    /\ ret = Result("createPendulum", "id")

NextRun ==
    \/ update(MinStep)
    \/ \E pos \in MousePositions : handleMouseDown(pos)
    \/ \E pos \in MousePositions : handleMouseMove(pos)
    \/ handleMouseUp
    \/ resetAll
    \/ \E value \in BOOLEAN : setPaused(value)
    \/ \E value \in Gravities : setGravity(value)
    \/ \E scale \in TimeScales : setTimeScale(scale)

SpecRun == InitRun /\ [][NextRun]_vars

(* ------------------------ a PathTracer on its own --------------------- *)

PathPositions == { <<0, 0>>, <<1, 0>> }

InitPath ==
    /\ pendulums = <<>>
    /\ next_id = 0
    /\ dragging_pendulum = NoPendulum
    /\ gravity = 10
    /\ time_scale = 1
    /\ paused = TRUE
    /\ \E max_points \in 0..MaxCap : tracer = PathTracer_init(max_points)
    /\ accumulated_time = 0
    /\ twin = <<>>
    /\ ret = Result("init", "None")

add_point(position) ==
    /\ tracer' = PathTracer_add_point(tracer, position)
    /\ ret' = Result("add_point", "None")
    /\ UNCHANGED <<sysvars, accumulated_time, twin>>

tracer_update ==
    /\ tracer' = PathTracer_update(tracer)
    /\ ret' = Result("PathTracer.update", "None")
    /\ UNCHANGED <<sysvars, accumulated_time, twin>>

clear ==
    /\ tracer' = PathTracer_clear(tracer)
    /\ ret' = Result("clear", "None")
    /\ UNCHANGED <<sysvars, accumulated_time, twin>>

set_enabled(enabled) ==
    /\ tracer' = PathTracer_set_enabled(tracer, enabled)
    /\ ret' = Result("set_enabled", "None")
    /\ UNCHANGED <<sysvars, accumulated_time, twin>>

NextPath ==
    \/ \E position \in PathPositions : add_point(position)
    \/ tracer_update
    \/ clear
    \/ \E enabled \in BOOLEAN : set_enabled(enabled)

SpecPath == InitPath /\ [][NextPath]_vars

(* ------------------------ two pendulums being dragged ----------------- *)

\* both joints moving at creation; the second preset hangs straight down
DragParams ==
    { [Params(10, 5, 1, 0, 1, 3) EXCEPT !.velocity2 = 1],
      [Params(10, 5, 0, 0, 1, 3) EXCEPT !.velocity2 = 1] }

\* two pendulums have been created while the simulation is paused
InitDrag ==
    /\ \E pa, pb \in DragParams :
          pendulums = << Pendulum_initialize([Pendulum_init EXCEPT !.id = 0], pa).p,
                         Pendulum_initialize([Pendulum_init EXCEPT !.id = 1], pb).p >>
    /\ next_id = 2
    /\ dragging_pendulum = NoPendulum
    /\ gravity = 10
    /\ time_scale = 1
    /\ paused = TRUE
    /\ tracer = PathTracer_init(0)
    /\ accumulated_time = 0
    /\ twin = <<>>
    /\ ret = Result("createPendulum", "id")

NextDrag ==
    \/ \E pos \in MousePositions : handleMouseDown(pos)
    \/ \E pos \in MousePositions : handleMouseMove(pos)
    \/ handleMouseUp
    \/ \E pendulum_id \in 0..1 : removePendulum(pendulum_id)
    \/ resetAll

SpecDrag == InitDrag /\ [][NextDrag]_vars

(* ------------------------------ PhysicsEngine ------------------------- *)

\* the largest frame time PhysicsEngine.update accumulates, 0.1 s, in ticks
MaxDelta == 48

\* delta_time after the clamp of lines 55-56
Clamp(delta_time) == IF delta_time > MaxDelta THEN MaxDelta ELSE delta_time

\* the loop of lines 62-64 with accumulated_time = acc, after n calls of
\* PendulumSystem.update; an exception of a call leaves the loop before the
\* step is subtracted
RECURSIVE RunSteps(_, _, _)
\* the loop after a call of PendulumSystem.update with outcome r
StepsAfter(acc, n, r) ==
    IF r.exc # NoException
    THEN [ps |-> r.ps, acc |-> acc, steps |-> n + 1, exc |-> r.exc]
    ELSE RunSteps(r.ps, acc - MinStep, n + 1)

RunSteps(ps, acc, n) ==
    IF acc >= MinStep THEN StepsAfter(acc, n, PendulumSystem_update(ps, MinStep))
    ELSE [ps |-> ps, acc |-> acc, steps |-> n, exc |-> NoException]

\* the frame times offered to PhysicsEngine.update, in ticks: less than a
\* step, more than a step, more than the clamp
Deltas == { 1, 3, MaxDelta + 2 }

ClockTimeScales == { 0, 1, 2 }

\* PhysicsEngine.update: delta_time is the time since the last call, read
\* from the clock; ret.steps is the number of PendulumSystem.update calls made
PhysicsEngine_update(delta_time) ==
    /\ AllWithinBounds(pendulums)
    /\ accumulated_time <= MaxCarried
    /\ \E r \in { RunSteps(pendulums, accumulated_time + Clamp(delta_time), 0) } :
          /\ pendulums' = r.ps
          /\ accumulated_time' = r.acc
          /\ ret' = [op |-> "PhysicsEngine.update",
                     result |-> IF r.exc = NoException THEN "None" ELSE r.exc,
                     steps |-> r.steps]
    /\ UNCHANGED <<next_id, dragging_pendulum, gravity, time_scale, paused, tracer, twin>>

\* the engine after PhysicsEngine.initialize: one pendulum, paused
InitClock ==
    /\ \E params \in RunParams :
          pendulums = <<Pendulum_initialize([Pendulum_init EXCEPT !.id = 0], params).p>>
    /\ next_id = 1
    /\ dragging_pendulum = NoPendulum
    /\ gravity = 10
    /\ time_scale = 1
    /\ paused = TRUE
    /\ tracer = PathTracer_init(0)
    /\ accumulated_time = 0
    /\ twin = <<>>
    /\ ret = Result("initialize", "None")

NextClock ==
    \/ \E delta_time \in Deltas : PhysicsEngine_update(delta_time)
    \/ \E value \in BOOLEAN : setPaused(value)
    \/ \E scale \in ClockTimeScales : setTimeScale(scale)
    \/ resetAll

SpecClock == InitClock /\ [][NextClock]_vars

(* ----------------------- two collections in step ---------------------- *)

TwinParams ==
    { Params(10, 5, 1, 0, 0, 3), Params(10, 5, 0, 1, 0, 3), Params(5, 10, 1, 1, 1, 3) }

\* two collections, each with one pendulum created from the same parameters;
\* the second collection may have used up an id before
InitTwin ==
    /\ \E params \in TwinParams, twin_id \in 0..1 :
          /\ pendulums = <<Pendulum_initialize([Pendulum_init EXCEPT !.id = 0], params).p>>
          /\ twin = <<Pendulum_initialize([Pendulum_init EXCEPT !.id = twin_id], params).p>>
    /\ next_id = 1
    /\ dragging_pendulum = NoPendulum
    /\ gravity = 10
    /\ time_scale = 1
    /\ paused = TRUE
    /\ tracer = PathTracer_init(0)
    /\ accumulated_time = 0
    /\ ret = Result("createPendulum", "id")

\* PendulumSystem.update(deltaTime) called on both collections
twin_update(deltaTime) ==
    /\ AllWithinBounds(pendulums)
    /\ AllWithinBounds(twin)
    /\ \E r \in { PendulumSystem_update(pendulums, deltaTime) },
          t \in { PendulumSystem_update(twin, deltaTime) } :
          /\ pendulums' = r.ps
          /\ twin' = t.ps
          /\ ret' = Result("update", IF r.exc = NoException THEN "None" ELSE r.exc)
    /\ UNCHANGED <<next_id, dragging_pendulum, gravity, time_scale, paused, tracer,
                   accumulated_time>>

\* the settings are those of both collections
NextTwin ==
    \/ twin_update(MinStep)
    \/ \E value \in BOOLEAN : setPaused(value)
    \/ \E value \in Gravities : setGravity(value)
    \/ \E scale \in TimeScales : setTimeScale(scale)

SpecTwin == InitTwin /\ [][NextTwin]_vars

(* --------------------- pendulums with trails of any length ------------ *)

\* two presets with every trail duration up to MaxDuration; NextCreate adds
\* an object that is not a PendulumParams
CreateParams ==
    { Params(10, 5, 1, 0, 0, duration) : duration \in 0..MaxDuration }
        \cup { Params(5, 10, 0, 1, 0, duration) : duration \in 0..MaxDuration }

NextCreate ==
    \/ \E params \in CreateParams \cup { NoParams } : createPendulum(params)
    \/ \E pendulum_id \in 0..MaxId : removePendulum(pendulum_id)
    \/ resetAll

SpecCreate == Init /\ [][NextCreate]_vars

(* ----------------------- the denominator on its own ------------------- *)

\* a pendulum of any positive lengths and masses at any angles of the grid
DenParams ==
    { [Params(l1, l2, a1, a2, 0, 3) EXCEPT !.mass1 = m1, !.mass2 = m2] :
        l1 \in 1..MaxLength, l2 \in {1, MaxLength}, m1 \in 1..MaxMass, m2 \in 1..MaxMass,
        a1 \in (0 - MaxAngle)..MaxAngle, a2 \in {0, 1} }

InitDen ==
    /\ \E params \in DenParams :
          pendulums = <<Pendulum_initialize([Pendulum_init EXCEPT !.id = 0], params).p>>
    /\ next_id = 1
    /\ dragging_pendulum = NoPendulum
    /\ gravity = 10
    /\ time_scale = 1
    /\ paused = TRUE
    /\ tracer = PathTracer_init(0)
    /\ accumulated_time = 0
    /\ twin = <<>>
    /\ ret = Result("createPendulum", "id")

\* line 145 of Pendulum.update, evaluated for the pendulum
evaluate_den ==
    /\ ret' = Result("den", Den(pendulums[1]))
    /\ UNCHANGED <<sysvars, tracer, accumulated_time, twin>>

NextDen == evaluate_den

SpecDen == InitDen /\ [][NextDen]_vars

(* ------------------------------- claims ------------------------------- *)

Dragging(ps) == { i \in 1..Len(ps) : ps[i].draggingBob # 0 }

IndexOf(ps, pendulum_id) == FindFrom(ps, 1, pendulum_id)

\* C1: in every reachable state at most one pendulum of the collection has a
\* non-Idle drag state (draggingBob # 0).
C1_AtMostOneDragged == Cardinality(Dragging(pendulums)) <= 1

\* C2: a pointerDown releases the drag state of the previous owner before it
\* hit-tests: after it, no pendulum other than the one it hit is dragged.
C2_PointerDownReleasesPriorOwner ==
    [][(ret'.op = "handleMouseDown" /\ \E pos \in MousePositions : handleMouseDown(pos))
          => \A i \in Dragging(pendulums') :
                ret'.result = "True" /\ pendulums'[i].id = dragging_pendulum']_vars

\* C3: a step (update) leaves the angles and the velocities of every pendulum
\* that is being dragged as they were.
C3_DragFreeze ==
    [][update(MinStep)
          => \A i \in Dragging(pendulums) :
                /\ pendulums'[i].angle1 = pendulums[i].angle1
                /\ pendulums'[i].angle2 = pendulums[i].angle2
                /\ pendulums'[i].vel1 = pendulums[i].vel1
                /\ pendulums'[i].vel2 = pendulums[i].vel2]_vars

\* C3 witness: the simulation runs, a step has just been taken and the pendulum
\* is held by its outer bob away from the angle it was created with.
C3_Witness ==
    /\ ret = Result("update", "None")
    /\ ~paused
    /\ \E i \in Dragging(pendulums) :
          /\ pendulums[i].id = dragging_pendulum
          /\ pendulums[i].angle2 # pendulums[i].initial_angle2

\* C4: a PathTracer never stores more points than its capacity, and an append
\* to a full buffer drops the oldest point and keeps the others in order.
C4_BufferBoundFifo ==
    /\ [](Len(tracer.points) <= tracer.maxlen)
    /\ [][\A position \in PathPositions :
             (add_point(position) /\ tracer.enabled /\ tracer.maxlen > 0
                 /\ Len(tracer.points) = tracer.maxlen)
             => /\ Len(tracer'.points) = tracer.maxlen
                /\ \A k \in 1..(tracer.maxlen - 1) : tracer'.points[k] = tracer.points[k + 1]
                /\ tracer'.points[tracer.maxlen]
                      = <<position[1], position[2], tracer.color, FullAlpha>>]_vars

\* C4 witness: a point has just been appended, the buffer is full, and the
\* points it holds differ in place and in opacity.
C4_Witness ==
    /\ ret.op = "add_point"
    /\ tracer.maxlen = MaxCap
    /\ Len(tracer.points) = tracer.maxlen
    /\ tracer.points[1][1] # tracer.points[2][1]
    /\ tracer.points[1][4] < tracer.points[2][4]

\* C5: the ids createPendulum returns increase strictly: each is at least
\* next_id as it was before the call and below next_id after it, next_id never
\* decreases, and the ids of the live pendulums are distinct and below next_id.
C5_IdsIncrease ==
    /\ [](\A i, j \in 1..Len(pendulums) :
             /\ pendulums[i].id < next_id
             /\ (i # j => pendulums[i].id # pendulums[j].id))
    /\ [][/\ next_id' >= next_id
          /\ (ret'.op = "createPendulum" /\ ret'.result = "id"
                 /\ \E params \in ParamSet : createPendulum(params))
             => /\ pendulums'[Len(pendulums')].id >= next_id
                /\ pendulums'[Len(pendulums')].id < next_id']_vars

\* C5 witness: an id was used up before, and the pendulum just created got the
\* next one, not the position it has in the list.
C5_Witness ==
    /\ ret = Result("createPendulum", "id")
    /\ Len(pendulums) = 1
    /\ pendulums[1].id = 1
    /\ next_id = 2

\* C6: every live pendulum has positive masses and lengths, because
\* createPendulum rejects parameters that are not.
C6_LivePendulumsValid ==
    \A i \in 1..Len(pendulums) :
        /\ pendulums[i].length1 > 0 /\ pendulums[i].length2 > 0
        /\ pendulums[i].mass1 > 0 /\ pendulums[i].mass2 > 0

\* the pendulums of ps whose id is not pendulum_id, in the order of ps
Without(ps, pendulum_id) == SelectSeq(ps, LAMBDA p : p.id # pendulum_id)

\* C7: removePendulum of a known id returns True and removes that pendulum
\* only, the others keeping their order and state; of an unknown id it returns
\* False and changes nothing.
C7_RemoveExactlyOne ==
    [][\A pendulum_id \in 0..MaxId :
          removePendulum(pendulum_id)
          => IF pendulum_id \in Ids(pendulums)
             THEN /\ ret'.result = "True"
                  /\ Len(pendulums') = Len(pendulums) - 1
                  /\ pendulums' = Without(pendulums, pendulum_id)
                  /\ UNCHANGED <<next_id, gravity, time_scale, paused>>
             ELSE /\ ret'.result = "False"
                  /\ UNCHANGED sysvars]_vars

\* C7 witness: the first of two pendulums has just been removed and the second
\* one is still there.
C7_Witness ==
    /\ ret = Result("removePendulum", "True")
    /\ Len(pendulums) = 1
    /\ pendulums[1].id = 1

\* C8: resetAll leaves every pendulum at the angles it was created with, at
\* rest and with an empty trail, and a second reset would change nothing.
C8_ResetIdempotent ==
    [][resetAll
          => \A i \in 1..Len(pendulums') :
                /\ \E params \in RunParams :
                      /\ pendulums'[i].angle1 = params.angle1
                      /\ pendulums'[i].angle2 = params.angle2
                /\ pendulums'[i].vel1 = 0
                /\ pendulums'[i].vel2 = 0
                /\ pendulums'[i].pathTracer.points = <<>>
                /\ Pendulum_reset(pendulums'[i]) = pendulums'[i]]_vars

\* C8 witness: the running simulation has just been reset while the pendulum
\* was held by a bob.
C8_Witness ==
    /\ ret = Result("resetAll", "None")
    /\ ~paused
    /\ Dragging(pendulums) # {}
    /\ \A i \in 1..Len(pendulums) : pendulums[i].pathTracer.points = <<>>

\* C9: no stored angle or velocity is ever non-finite, because a step that
\* would produce one is rolled back.
C9_StoredValuesFinite ==
    \A i \in 1..Len(pendulums) :
        /\ IsFinite(pendulums[i].angle1) /\ IsFinite(pendulums[i].angle2)
        /\ IsFinite(pendulums[i].vel1) /\ IsFinite(pendulums[i].vel2)

\* C10: when the position of a pointerDown is within the hit radius of both
\* bobs of the pendulum it grabs, that pendulum is held by its outer bob.
C10_OuterBobFirst ==
    [][\A pos \in MousePositions :
          (ret'.op = "handleMouseDown" /\ handleMouseDown(pos) /\ ret'.result = "True")
          => LET i == IndexOf(pendulums, dragging_pendulum')
             IN  (/\ WithinRadius(pos, Bob2Position(pendulums[i]), pendulums[i].bobRadius2)
                  /\ WithinRadius(pos, Bob1Position(pendulums[i]), pendulums[i].bobRadius1))
                 => pendulums'[i].draggingBob = 2]_vars

\* C10 witness: a pointerDown has just grabbed a pendulum by its outer bob at a
\* position that is within the hit radius of its inner bob too.
C10_Witness ==
    /\ ret = Result("handleMouseDown", "True")
    /\ \E i \in 1..Len(pendulums), pos \in MousePositions :
          /\ pendulums[i].id = dragging_pendulum
          /\ pendulums[i].draggingBob = 2
          /\ Bob1Position(pendulums[i]) # Bob2Position(pendulums[i])
          /\ WithinRadius(pos, Bob2Position(pendulums[i]), pendulums[i].bobRadius2)
          /\ WithinRadius(pos, Bob1Position(pendulums[i]), pendulums[i].bobRadius1)

\* pos is within the hit radius of a bob of p
Hit(p, pos) ==
    \/ WithinRadius(pos, Bob2Position(p), p.bobRadius2)
    \/ WithinRadius(pos, Bob1Position(p), p.bobRadius1)

\* the ids of the pendulums of ps that pos hits
HitIds(ps, pos) == { ps[i].id : i \in { k \in 1..Len(ps) : Hit(ps[k], pos) } }

\* C11: a pointerDown returns True exactly when its position hits a bob of
\* some pendulum, and the drag owner is then the pendulum with the highest id
\* (the most recently created) among those hit.
C11_TopmostWins ==
    [][\A pos \in MousePositions :
          (ret'.op = "handleMouseDown" /\ handleMouseDown(pos))
          => /\ (ret'.result = "True") <=> (HitIds(pendulums, pos) # {})
             /\ HitIds(pendulums, pos) # {}
                => /\ dragging_pendulum' \in HitIds(pendulums, pos)
                   /\ \A id \in HitIds(pendulums, pos) : id <= dragging_pendulum']_vars

\* C11 witness: a pointerDown at a position that hits two pendulums has just
\* grabbed the later created one and left the earlier one alone.
C11_Witness ==
    /\ ret = Result("handleMouseDown", "True")
    /\ Len(pendulums) = 2
    /\ dragging_pendulum = pendulums[2].id
    /\ pendulums[1].id < pendulums[2].id
    /\ pendulums[1].draggingBob = 0
    /\ pendulums[2].draggingBob # 0
    /\ \E pos \in MousePositions : HitIds(pendulums, pos) = Ids(pendulums)

\* C12: a pointerMove changes nothing but the angle and the velocity of the
\* joint the drag owner is held by, whose velocity becomes 0; without a drag
\* owner in the collection it changes nothing.
C12_PointerMoveFrame ==
    [][\A pos \in MousePositions :
          handleMouseMove(pos)
          => LET i == IndexOf(pendulums, dragging_pendulum)
             IN  /\ UNCHANGED <<next_id, dragging_pendulum, gravity, time_scale, paused>>
                 /\ Len(pendulums') = Len(pendulums)
                 /\ \A j \in 1..Len(pendulums) : j # i => pendulums'[j] = pendulums[j]
                 /\ i # 0 =>
                       CASE pendulums[i].draggingBob = 1 ->
                              pendulums'[i] = [pendulums[i] EXCEPT
                                                 !.angle1 = pendulums'[i].angle1, !.vel1 = 0]
                         [] pendulums[i].draggingBob = 2 ->
                              pendulums'[i] = [pendulums[i] EXCEPT
                                                 !.angle2 = pendulums'[i].angle2, !.vel2 = 0]
                         [] OTHER -> pendulums'[i] = pendulums[i]]_vars

\* C12 witness: a pointerMove has just moved the inner joint of the owner and
\* stopped it, the owner's outer joint and the other pendulum still moving.
C12_Witness ==
    /\ ret = Result("handleMouseMove", "None")
    /\ Len(pendulums) = 2
    /\ \E i, j \in 1..2 :
          /\ i # j
          /\ pendulums[i].id = dragging_pendulum
          /\ pendulums[i].draggingBob = 1
          /\ pendulums[i].angle1 # pendulums[i].initial_angle1
          /\ pendulums[i].vel1 = 0
          /\ pendulums[i].vel2 # 0
          /\ pendulums[j].vel1 # 0
          /\ pendulums[j].vel2 # 0

\* C13: right after a pointerDown that hits a bob, the velocity of the joint
\* the hit pendulum is held by is 0 (vel1 for the inner bob, vel2 for the
\* outer bob).
C13_PointerDownStopsJoint ==
    [][\A pos \in MousePositions :
          (handleMouseDown(pos) /\ ret'.result = "True")
          => LET i == IndexOf(pendulums', dragging_pendulum')
             IN  /\ pendulums'[i].draggingBob = 1 => pendulums'[i].vel1 = 0
                 /\ pendulums'[i].draggingBob = 2 => pendulums'[i].vel2 = 0]_vars

\* C14: a pointerUp with a drag owner makes that pendulum Idle, changes
\* nothing else of it and no other pendulum, and clears the ownership; with
\* no drag owner it changes nothing.
C14_PointerUpFrame ==
    [][handleMouseUp
          => IF dragging_pendulum = NoPendulum
             THEN UNCHANGED sysvars
             ELSE LET i == IndexOf(pendulums, dragging_pendulum)
                  IN  /\ dragging_pendulum' = NoPendulum
                      /\ Len(pendulums') = Len(pendulums)
                      /\ \A j \in 1..Len(pendulums) :
                            pendulums'[j] = IF j = i
                                            THEN [pendulums[j] EXCEPT !.draggingBob = 0]
                                            ELSE pendulums[j]
                      /\ UNCHANGED <<next_id, gravity, time_scale, paused>>]_vars

\* C14 witness: a pointerUp has just ended a drag of the outer bob that had
\* been moved; no pendulum is held and nothing is owned.
C14_Witness ==
    /\ ret = Result("handleMouseUp", "None")
    /\ dragging_pendulum = NoPendulum
    /\ Dragging(pendulums) = {}
    /\ \E i \in 1..Len(pendulums) :
          /\ pendulums[i].vel2 = 0
          /\ pendulums[i].vel1 # 0
          /\ pendulums[i].angle2 # pendulums[i].initial_angle2

\* C15: one PhysicsEngine.update of a running simulation issues at most
\* (cap * time_scale + carried remainder) / fixed step steps.
C15_StepsBounded ==
    [][\A delta_time \in Deltas :
          (PhysicsEngine_update(delta_time) /\ ~paused)
          => ret'.steps * MinStep <= MaxDelta * time_scale + accumulated_time]_vars

\* C16: while paused, PhysicsEngine.update leaves the accumulator and every
\* pendulum as they were.
C16_PausedNoAccumulation ==
    [][\A delta_time \in Deltas :
          (PhysicsEngine_update(delta_time) /\ paused)
          => /\ accumulated_time' = accumulated_time
             /\ pendulums' = pendulums]_vars

\* C17: whatever the time scale, a step of the running simulation gives every
\* pendulum the state the integrator computes for dt = the fixed step.
C17_ConstantStep ==
    [][(update(MinStep) /\ ~paused)
          => \A i \in 1..Len(pendulums) :
                pendulums'[i] = Pendulum_update(pendulums[i], MinStep, gravity).p]_vars

Survives(old, new) ==
    \E f \in [1..Len(new) -> 1..Len(old)] :
        /\ \A j, k \in 1..Len(new) : j < k => f[j] < f[k]
        /\ \A k \in 1..Len(new) :
              /\ new[k][1] = old[f[k]][1]
              /\ new[k][2] = old[f[k]][2]
              /\ new[k][3] = old[f[k]][3]
              /\ new[k][4] <= old[f[k]][4]

\* C19: every stored point has an opacity in 0..255; an append stores its
\* point last with opacity 255, and under appends and decays every other
\* stored point is a point stored before, no more opaque than it was.
C19_OpacityRangeAndDecay ==
    /\ [](\A k \in 1..Len(tracer.points) : tracer.points[k][4] \in 0..FullAlpha)
    /\ [][\A position \in PathPositions :
             (add_point(position) /\ tracer.enabled /\ tracer.maxlen > 0)
             => /\ tracer'.points # <<>>
                /\ tracer'.points[Len(tracer'.points)]
                      = <<position[1], position[2], tracer.color, FullAlpha>>
                /\ Survives(tracer.points,
                            SubSeq(tracer'.points, 1, Len(tracer'.points) - 1))]_vars
    /\ [][\A position \in PathPositions :
             (add_point(position) /\ ~(tracer.enabled /\ tracer.maxlen > 0))
             => Survives(tracer.points, tracer'.points)]_vars
    /\ [][tracer_update => Survives(tracer.points, tracer'.points)]_vars

\* C19 witness: a decay has just run on a full trail whose points were
\* appended at different times: both are below full opacity, the older one
\* lower.
C19_Witness ==
    /\ ret = Result("PathTracer.update", "None")
    /\ Len(tracer.points) >= 2
    /\ tracer.points[1][4] < tracer.points[2][4]
    /\ tracer.points[2][4] < FullAlpha

\* C20: a disabled PathTracer holds no points: set_enabled(False) empties the
\* trail, add_point on a disabled tracer stores nothing, and the trail is
\* empty right after set_enabled(True) on a disabled tracer.
C20_DisabledIsEmpty ==
    /\ [](~tracer.enabled => tracer.points = <<>>)
    /\ [][set_enabled(FALSE) => (~tracer'.enabled /\ tracer'.points = <<>>)]_vars
    /\ [][\A position \in PathPositions :
             (add_point(position) /\ ~tracer.enabled) => tracer'.points = <<>>]_vars
    /\ [][(set_enabled(TRUE) /\ ~tracer.enabled)
             => (tracer'.enabled /\ tracer'.points = <<>>)]_vars

\* C20 witness: an append has just been made to a disabled tracer that has
\* room for points.
C20_Witness ==
    /\ ret = Result("add_point", "None")
    /\ ~tracer.enabled
    /\ tracer.maxlen = MaxCap
    /\ tracer.points = <<>>

\* C21: a step of the running simulation appends the outer bob's position to
\* the trail of every pendulum whose trail is enabled, dragged or not, and
\* then fades that trail.
C21_StepAppendsAndDecays ==
    [][(ret'.op = "update" /\ update(MinStep) /\ ~paused /\ ret'.result = "None")
          => \A i \in 1..Len(pendulums) :
                pendulums[i].pathTracer.enabled
                => pendulums'[i].pathTracer
                      = PathTracer_update(
                            PathTracer_add_point(pendulums[i].pathTracer,
                                                 Bob2Position(pendulums'[i])))]_vars

Acc1(p, g) ==
    Div(Sub(Sub(Mul(Mul(Neg(g), Add(Mul(2, p.mass1), p.mass2)), Sin(p.angle1)),
                Mul(Mul(p.mass2, g), Sin(Sub(p.angle1, Mul(2, p.angle2))))),
            Mul(Mul(Mul(2, Sin(Sub(p.angle1, p.angle2))), p.mass2),
                Add(Mul(Sq(p.vel2), p.length2),
                    Mul(Mul(Sq(p.vel1), p.length1), Cos(Sub(p.angle1, p.angle2)))))),
        Den(p))

Acc2(p, g) ==
    Div(Add(Mul(Mul(2, Sin(Sub(p.angle1, p.angle2))),
                Add(Mul(Mul(Sq(p.vel1), p.length1), Add(p.mass1, p.mass2)),
                    Mul(Mul(g, Add(p.mass1, p.mass2)), Cos(p.angle1)))),
            Mul(Mul(Mul(Sq(p.vel2), p.length2), p.mass2),
                Cos(Sub(p.angle1, p.angle2)))),
        Mul(p.length2, Den(p)))

\* C23: a completed integrator step of a pendulum that is not dragged sets
\* each velocity to the old velocity plus acc * dt, with the accelerations of
\* the state before the step, and then each angle to the old angle plus the
\* new velocity * dt; from rest the new velocities are acc * dt.
C23_SemiImplicitEuler ==
    [][(ret'.op = "update" /\ update(MinStep) /\ ~paused /\ ret'.result = "None")
          => \A i \in 1..Len(pendulums) :
                pendulums[i].draggingBob = 0
                => LET p == pendulums[i]
                       q == pendulums'[i]
                       dt == Mul(MinStep, time_scale)
                   IN  /\ q.vel1 = Add(p.vel1, TimesDt(Acc1(p, gravity), dt))
                       /\ q.vel2 = Add(p.vel2, TimesDt(Acc2(p, gravity), dt))
                       /\ q.angle1 = Add(p.angle1, TimesDt(q.vel1, dt))
                       /\ q.angle2 = Add(p.angle2, TimesDt(q.vel2, dt))
                       /\ (p.vel1 = 0 /\ p.vel2 = 0)
                          => /\ q.vel1 = TimesDt(Acc1(p, gravity), dt)
                             /\ q.vel2 = TimesDt(Acc2(p, gravity), dt)]_vars

\* C23 witness: a step has just moved a free pendulum that was already in
\* motion: its inner joint has a velocity and has left its starting angle,
\* and the trail holds two points.
C23_Witness ==
    /\ ret = Result("update", "None")
    /\ ~paused
    /\ twin = <<>>
    /\ Len(pendulums) = 1
    /\ pendulums[1].draggingBob = 0
    /\ pendulums[1].vel1 # 0
    /\ pendulums[1].angle1 # pendulums[1].initial_angle1
    /\ Len(pendulums[1].pathTracer.points) = 2

\* C24: after PhysicsEngine.update of a running simulation the accumulator
\* is at least 0 and below the fixed step, the steps issued number
\* floor((accumulator before + clamped delta * time scale) / fixed step), and
\* the accumulator holds the remainder of that division.
C24_AccumulatorRemainder ==
    [][\A delta_time \in Deltas :
          (ret'.op = "PhysicsEngine.update" /\ PhysicsEngine_update(delta_time) /\ ~paused)
          => LET total == accumulated_time + Clamp(delta_time) * time_scale
             IN  /\ accumulated_time' >= 0
                 /\ accumulated_time' < MinStep
                 /\ ret'.steps = total \div MinStep
                 /\ accumulated_time' = total % MinStep]_vars

\* alpha times the fade rate, floored
Faded(alpha) == (alpha * FadeNum) \div FadeDen

\* C25: in every reachable state the stored opacities are above the minimum
\* and do not decrease from the oldest to the newest point; a decay removes
\* an oldest-end prefix of the points, exactly those whose opacity times the
\* fade rate, floored, is at or below the minimum, and leaves every other
\* point in place with that opacity.
C25_DecayDropsOldestPrefix ==
    /\ [](\A k \in 1..Len(tracer.points) :
             /\ tracer.points[k][4] > MinAlpha
             /\ k > 1 => tracer.points[k - 1][4] <= tracer.points[k][4])
    /\ [][(ret'.op = "PathTracer.update" /\ tracer_update)
             => LET old == tracer.points
                    new == tracer'.points
                    dropped == Len(old) - Len(new)
                IN  /\ dropped >= 0
                    /\ \A k \in 1..dropped : Faded(old[k][4]) <= MinAlpha
                    /\ \A k \in 1..Len(new) :
                          /\ Faded(old[dropped + k][4]) > MinAlpha
                          /\ new[k] = <<old[dropped + k][1], old[dropped + k][2],
                                        old[dropped + k][3], Faded(old[dropped + k][4])>>]_vars

\* C25 witness: a decay has just brought the oldest point to the last opacity
\* above the minimum whose next decay is not, with a newer, brighter point
\* behind it: the next decay removes a proper prefix.
C25_Witness ==
    /\ ret = Result("PathTracer.update", "None")
    /\ Len(tracer.points) >= 2
    /\ Faded(tracer.points[1][4]) <= MinAlpha
    /\ Faded(tracer.points[Len(tracer.points)][4]) > MinAlpha

C28_OwnerIsLive ==
    dragging_pendulum # NoPendulum => dragging_pendulum \in Ids(pendulums)

\* C29: right after a pointerUp no pendulum of the collection is held.
C29_IdleAfterPointerUp ==
    ret.op = "handleMouseUp" => \A i \in 1..Len(pendulums) : pendulums[i].draggingBob = 0

\* C30: createPendulum either appends the new pendulum, with the id it
\* returns, or, when the initialization fails, leaves the list and next_id as
\* they were.
C30_CreateAtomic ==
    [][ret'.op = "createPendulum"
          => IF ret'.result = "id"
             THEN /\ Len(pendulums') = Len(pendulums) + 1
                  /\ SubSeq(pendulums', 1, Len(pendulums)) = pendulums
                  /\ pendulums'[Len(pendulums')].id = next_id
             ELSE /\ pendulums' = pendulums
                  /\ next_id' = next_id]_vars

====
